---- MODULE Spec2Model ----
(***************************************************************************)
(* A model of compare.py (swagger_api_compare): the snapshot store kept in  *)
(* the file system (save_spec, save_diff, get_latest_spec_in_range), the    *)
(* key derivation (extract_default_directory), the comparison               *)
(* (compare_specs, DeepDiff with ignore_order=True) and the orchestration   *)
(* (process_url, main).                                                     *)
(*                                                                         *)
(* Strings are sequences of one-character strings, so that startswith,      *)
(* endswith, slicing, split, strftime and strptime are computed as the      *)
(* code computes them.  An instant (a naive datetime) is the tuple          *)
(* <<year, month, day, hour, minute, second>>.                              *)
(***************************************************************************)
EXTENDS Integers, Sequences, FiniteSets, TLC

VARIABLES
    dirs,    \* the directories that exist
    files,   \* the files that exist: path -> content
    now,     \* the wall clock, datetime.now(), to the second
    args,    \* the arguments of main: base_filename, start_time, end_time
    last,    \* what the last operation was given, saw and returned
    hist,    \* a summary of the operations so far
    pc,      \* the position of each concurrent caller of save_spec / save_diff
    cmp      \* the documents of a comparison and its report

vars == <<dirs, files, now, args, last, hist, pc, cmp>>

-----------------------------------------------------------------------------
(* Strings *)

Digits == <<"0", "1", "2", "3", "4", "5", "6", "7", "8", "9">>

IsDigit(c) == \E i \in DOMAIN Digits : Digits[i] = c

DigitVal(c) == (CHOOSE i \in DOMAIN Digits : Digits[i] = c) - 1

AllDigits(s) == \A i \in DOMAIN s : IsDigit(s[i])

\* int() of a string of digits
RECURSIVE NumVal(_)
NumVal(s) ==
    IF s = <<>> THEN 0
    ELSE 10 * NumVal(SubSeq(s, 1, Len(s) - 1)) + DigitVal(s[Len(s)])

\* str.startswith
StartsWith(s, p) == Len(p) <= Len(s) /\ SubSeq(s, 1, Len(p)) = p

\* str.endswith
EndsWith(s, q) == Len(q) <= Len(s) /\ SubSeq(s, Len(s) - Len(q) + 1, Len(s)) = q

\* str.split(sep) for a one-character separator: the pieces between the
\* separators, empty pieces included
RECURSIVE Split(_, _)
Split(s, sep) ==
    IF \A i \in DOMAIN s : s[i] # sep THEN <<s>>
    ELSE LET i == CHOOSE k \in DOMAIN s :
                      s[k] = sep /\ \A j \in 1..(k - 1) : s[j] # sep
         IN  <<SubSeq(s, 1, i - 1)>> \o Split(SubSeq(s, i + 1, Len(s)), sep)

DotJson == <<".", "j", "s", "o", "n">>

Underscore == <<"_">>

DiffInfix == <<"_", "d", "i", "f", "f", "_">>

-----------------------------------------------------------------------------
(* Instants, strftime('%Y%m%d%H%M%S') and strptime(.., '%Y%m%d%H%M%S') *)

\* start_time=None, end_time=None
NoTime == <<>>

TimeLT(a, b) ==
    \E i \in 1..6 : a[i] < b[i] /\ \A j \in 1..(i - 1) : a[j] = b[j]

TimeLE(a, b) == a = b \/ TimeLT(a, b)

Pad2(n) == <<Digits[(n \div 10) + 1], Digits[(n % 10) + 1]>>

Pad4(n) == Pad2(n \div 100) \o Pad2(n % 100)

\* datetime.strftime('%Y%m%d%H%M%S'), for years of four digits
Strftime(t) ==
    Pad4(t[1]) \o Pad2(t[2]) \o Pad2(t[3]) \o Pad2(t[4]) \o Pad2(t[5]) \o Pad2(t[6])

IsLeap(y) == (y % 4 = 0 /\ y % 100 # 0) \/ y % 400 = 0

DaysInMonth(y, m) ==
    IF m = 2 THEN (IF IsLeap(y) THEN 29 ELSE 28)
    ELSE IF m \in {4, 6, 9, 11} THEN 30 ELSE 31

\* The regular expression strptime builds for the format: %Y is \d\d\d\d and
\* each of %m %d %H %M %S is an alternation that tries its two-digit forms
\* before its one-digit form:
\*   m 1[0-2]|0[1-9]|[1-9]     d 3[01]|[12]\d|0[1-9]|[1-9]     H 2[0-3]|[01]\d|\d
\*   M [0-5]\d|\d              S 6[01]|[0-5]\d|\d
\* (d's last alternative, a space and a digit, needs a space: no name of the
\* model holds one).  FieldLo/FieldHi[j][w]: the values field j accepts when
\* written with w characters.
FieldLo == << <<1, 1>>, <<1, 1>>, <<0, 0>>, <<0, 0>>, <<0, 0>> >>

FieldHi == << <<9, 12>>, <<9, 31>>, <<9, 23>>, <<9, 59>>, <<9, 61>> >>

\* Whether the w characters of s from pos on are a form of field j
FieldMatches(s, pos, w, j) ==
    /\ pos + w - 1 <= Len(s)
    /\ AllDigits(SubSeq(s, pos, pos + w - 1))
    /\ NumVal(SubSeq(s, pos, pos + w - 1)) >= FieldLo[j][w]
    /\ NumVal(SubSeq(s, pos, pos + w - 1)) <= FieldHi[j][w]

NoMatch == [ok |-> FALSE, vals |-> <<>>, end |-> 0]

\* The backtracking match of the fields j..5 from pos on: the two-digit
\* form of a field and the rest, else its one-digit form and the rest.
\* vals: the fields' values; end: the last character matched.
RECURSIVE MatchFields(_, _, _)
MatchFields(s, pos, j) ==
    IF j > 5 THEN [ok |-> TRUE, vals |-> <<>>, end |-> pos - 1]
    ELSE LET two == IF FieldMatches(s, pos, 2, j)
                    THEN MatchFields(s, pos + 2, j + 1) ELSE NoMatch
         IN  IF two.ok
             THEN [two EXCEPT !.vals = <<NumVal(SubSeq(s, pos, pos + 1))>> \o @]
             ELSE LET one == IF FieldMatches(s, pos, 1, j)
                             THEN MatchFields(s, pos + 1, j + 1) ELSE NoMatch
                  IN  IF one.ok
                      THEN [one EXCEPT !.vals = <<NumVal(SubSeq(s, pos, pos))>> \o @]
                      ELSE NoMatch

ValueError == [ok |-> FALSE, t |-> NoTime]

\* datetime.strptime(s, '%Y%m%d%H%M%S'): the first match of the regular
\* expression (re.match, not anchored at the end), ValueError when there is
\* none, when it leaves characters unconverted, or when the datetime
\* constructor rejects the fields
Strptime(s) ==
    IF Len(s) < 4 \/ ~AllDigits(SubSeq(s, 1, 4)) THEN ValueError
    ELSE LET m == MatchFields(s, 5, 1)
             t == <<NumVal(SubSeq(s, 1, 4))>> \o m.vals
         IN  IF ~m.ok THEN ValueError
             ELSE IF m.end # Len(s) THEN ValueError
             ELSE IF t[1] < 1 \/ t[3] > DaysInMonth(t[1], t[2]) \/ t[6] > 59
                  THEN ValueError
             ELSE [ok |-> TRUE, t |-> t]

-----------------------------------------------------------------------------
(* The file system *)

\* latest_spec = None
NoPath == [dir |-> <<>>, name |-> <<>>]

\* os.path.exists(directory)
DirExists(ds, directory) == directory \in ds

\* os.makedirs(directory): the directory and its missing parents
Makedirs(ds, directory) ==
    ds \cup {SubSeq(directory, 1, n) : n \in 1..Len(directory)}

\* os.listdir(directory), the files of it
Listdir(fs, directory) == {p.name : p \in {q \in DOMAIN fs : q.dir = directory}}

\* open(path, 'w') and a completed json.dump: the file holds the document,
\* whatever it held before
WriteFile(fs, path, content) == (path :> content) @@ fs

-----------------------------------------------------------------------------
(* Documents: what json.load returns *)

DInt(n) == [k |-> "int", v |-> n]

\* the float n.0
DFloat(n) == [k |-> "float", v |-> n]

DStr(s) == [k |-> "str", v |-> s]

\* a list
DArr(s) == [k |-> "arr", v |-> s]

\* a dict: a function from its keys
DObj(f) == [k |-> "obj", v |-> f]

\* None
NoDoc == [k |-> "none", v |-> 0]

\* bool(x) of a document or None: None and the empty containers are false
Truthy(d) ==
    CASE d.k = "none" -> FALSE
      [] d.k = "arr" -> d.v # <<>>
      [] d.k = "obj" -> DOMAIN d.v # {}
      [] d.k = "str" -> d.v # ""
      [] OTHER -> d.v # 0

-----------------------------------------------------------------------------
(* compare_specs: DeepDiff(previous_spec, current_spec, ignore_order=True) *)

\* Whether DeepDiff takes two items of lists to be the same item: their
\* DeepHash is equal.  With ignore_order=True and report_repetition left
\* False the hash of a list ignores the order and the repetition of its
\* items; the hash of a number holds its type (ignore_numeric_type_changes
\* is left False).
RECURSIVE SameItem(_, _)
SameItem(a, b) ==
    IF a.k # b.k THEN FALSE
    ELSE CASE a.k = "arr" ->
                 /\ \A i \in DOMAIN a.v : \E j \in DOMAIN b.v : SameItem(a.v[i], b.v[j])
                 /\ \A j \in DOMAIN b.v : \E i \in DOMAIN a.v : SameItem(a.v[i], b.v[j])
           [] a.k = "obj" ->
                 /\ DOMAIN a.v = DOMAIN b.v
                 /\ \A key \in DOMAIN a.v : SameItem(a.v[key], b.v[key])
           [] OTHER -> a.v = b.v

Entry(kind, path) == [kind |-> kind, path |-> path]

\* The report of DeepDiff(t1, t2, ignore_order=True) as the set of its
\* entries, each the kind of change and the path ("root", then keys and
\* list indices).  Values of different types: type_changes (int and float
\* are different types).  Dicts: keys added and removed, the common keys
\* compared.  Lists: the items of one list with no same item in the other.
RECURSIVE DeepDiff(_, _, _)
DeepDiff(t1, t2, path) ==
    IF t1.k # t2.k THEN {Entry("type_changes", path)}
    ELSE CASE t1.k = "obj" ->
                 {Entry("dictionary_item_added", Append(path, key)) :
                      key \in DOMAIN t2.v \ DOMAIN t1.v}
                 \cup {Entry("dictionary_item_removed", Append(path, key)) :
                      key \in DOMAIN t1.v \ DOMAIN t2.v}
                 \cup UNION {DeepDiff(t1.v[key], t2.v[key], Append(path, key)) :
                      key \in DOMAIN t1.v \cap DOMAIN t2.v}
           [] t1.k = "arr" ->
                 {Entry("iterable_item_added", Append(path, Digits[j])) :
                      j \in {n \in DOMAIN t2.v :
                                \A i \in DOMAIN t1.v : ~SameItem(t1.v[i], t2.v[n])}}
                 \cup {Entry("iterable_item_removed", Append(path, Digits[i])) :
                      i \in {n \in DOMAIN t1.v :
                                \A j \in DOMAIN t2.v : ~SameItem(t1.v[n], t2.v[j])}}
           [] OTHER ->
                 IF t1.v # t2.v THEN {Entry("values_changed", path)} ELSE {}

compare_specs(current_spec, previous_spec) ==
    DeepDiff(previous_spec, current_spec, <<"root">>)

-----------------------------------------------------------------------------
(* The snapshot store: save_spec, save_diff, get_latest_spec_in_range *)

\* json.dump(spec, file): the file holds the document as JSON
JsonDump(doc) == [json |-> TRUE, doc |-> doc]

\* json.dump(diff, file, default=str): the file holds the report as JSON
JsonDumpDiff(report) == [json |-> TRUE, doc |-> [k |-> "diff", v |-> report]]

\* What open(path, 'w') leaves when json.dump does not complete
Truncated == [json |-> FALSE, doc |-> NoDoc]

\* f"{base_filename}_{timestamp}.json" in the directory
SpecPath(directory, base_filename, t) ==
    [dir |-> directory, name |-> base_filename \o Underscore \o Strftime(t) \o DotJson]

\* f"{base_filename}_diff_{timestamp}.json" in the directory
DiffPath(directory, base_filename, t) ==
    [dir |-> directory, name |-> base_filename \o DiffInfix \o Strftime(t) \o DotJson]

\* if not os.path.exists(directory): os.makedirs(directory)
EnsureDir(ds, directory) ==
    IF ~DirExists(ds, directory) THEN Makedirs(ds, directory) ELSE ds

\* save_spec at the instant t: the files afterwards
save_spec(fs, spec, directory, base_filename, t) ==
    WriteFile(fs, SpecPath(directory, base_filename, t), JsonDump(spec))

\* save_diff at the instant t: the files afterwards
save_diff(fs, report, directory, base_filename, t) ==
    WriteFile(fs, DiffPath(directory, base_filename, t), JsonDumpDiff(report))

\* timestamp_str = filename[len(base_filename) + 1:-5]
TimestampStr(filename, base_filename) ==
    SubSeq(filename, Len(base_filename) + 2, Len(filename) - 5)

\* filename.startswith(base_filename) and filename.endswith('.json')
NameMatches(filename, base_filename) ==
    StartsWith(filename, base_filename) /\ EndsWith(filename, DotJson)

\* (start_time is None or file_time >= start_time) and
\* (end_time is None or file_time <= end_time)
InRange(file_time, start_time, end_time) ==
    /\ start_time = NoTime \/ TimeLE(start_time, file_time)
    /\ end_time = NoTime \/ TimeLE(file_time, end_time)

\* file_time < latest_time: the loop would keep the oldest entry
Older(file_time, latest_time) == TimeLT(file_time, latest_time)

\* file_time > latest_time
Newer(file_time, latest_time) == TimeLT(latest_time, file_time)

\* The entries of the directory the loop does not skip: the name matches,
\* the timestamp decodes and lies within the bounds
Candidates(fs, directory, base_filename, start_time, end_time) ==
    {f \in Listdir(fs, directory) :
        /\ NameMatches(f, base_filename)
        /\ Strptime(TimestampStr(f, base_filename)).ok
        /\ InRange(Strptime(TimestampStr(f, base_filename)).t, start_time, end_time)}

\* The entries the loop leaves with "except ValueError: continue"
Skipped(fs, directory, base_filename) ==
    {f \in Listdir(fs, directory) :
        NameMatches(f, base_filename) /\ ~Strptime(TimestampStr(f, base_filename)).ok}

\* get_latest_spec_in_range: the paths it may return.  The loop keeps an
\* entry only when it is newer than the one kept, so it returns an entry no
\* other candidate is newer than; among candidates of one file_time the
\* order of os.listdir decides, and that order is arbitrary.
get_latest_spec_in_range(ds, fs, directory, base_filename, start_time, end_time) ==
    LET cands == Candidates(fs, directory, base_filename, start_time, end_time)
        time(f) == Strptime(TimestampStr(f, base_filename)).t
    IN  IF ~DirExists(ds, directory) THEN {NoPath}
        ELSE IF cands = {} THEN {NoPath}
        ELSE {[dir |-> directory, name |-> f] :
                 f \in {g \in cands : \A h \in cands : ~Newer(time(h), time(g))}}

\* validate_spec(spec) of swagger_spec_validator, as far as the model's
\* documents go: a Swagger document is an object with its paths
ValidSwagger(doc) == doc.k = "obj" /\ "paths" \in DOMAIN doc.v

\* load_spec of a file: the document, or None when the file is missing or
\* is not JSON or is not a valid Swagger document
load_spec_file(fs, path) ==
    IF path \notin DOMAIN fs THEN NoDoc
    ELSE IF ~fs[path].json THEN NoDoc
    ELSE IF ~ValidSwagger(fs[path].doc) THEN NoDoc
    ELSE fs[path].doc

\* load_spec of a URL: response is the document the server answers with,
\* or None for a failed request or a body that is not JSON
load_spec_url(response) ==
    IF response = NoDoc THEN NoDoc
    ELSE IF ~ValidSwagger(response) THEN NoDoc
    ELSE response

-----------------------------------------------------------------------------
(* extract_default_directory and the directories of process_url *)

\* urlparse(url).path: a URL is its host and its path
UrlPath(url) == url.path

extract_default_directory(url) ==
    LET path_parts == Split(UrlPath(url), "/")
    IN  IF Len(path_parts) >= 2 THEN path_parts[Len(path_parts) - 1]
        ELSE <<".">>

\* os.path.join(work_dir, kind, default_directory) as the directory it
\* names: joining '' or '.' names the directory of the kind itself
JoinDir(kind, default_directory) ==
    IF default_directory \in {<<>>, <<".">>} THEN <<kind>>
    ELSE <<kind, default_directory>>

cur_spec == "current"

diff == "differences"

-----------------------------------------------------------------------------
(* Bounds and the inputs of the model *)

\* how many seconds the wall clock runs past StartInstant
ClockSpan == 2

\* how many runs of process_url, or calls of the store, a behaviour holds
MaxRuns == 3

\* the longest list of the documents compare_specs is applied to
MaxArr == 3

\* the longest URL path extract_default_directory is applied to
MaxPathLen == 4

\* how many callers of save_spec / save_diff run concurrently
NumCallers == 2

StartInstant == <<2023, 11, 11, 11, 11, 9>>

Second(i) == [StartInstant EXCEPT ![6] = StartInstant[6] + i]

\* the values of start_time and end_time
TimeArgs == {NoTime, Second(1)}

DocA == DObj("paths" :> DArr(<<DStr("/a")>>))

DocB == DObj("paths" :> DArr(<<DStr("/a"), DStr("/b")>>))

\* JSON that is no Swagger document
BadDoc == DObj("x" :> DInt(1))

\* what a server may answer: a document, or None for no usable answer
Responses == {DocA, DocB, BadDoc, NoDoc}

NoUrl == [host |-> "", path |-> <<>>]

\* the lines of urls.txt: two hosts serving one path, and another path
UrlA1 == [host |-> "h1", path |-> <<"/", "a", "/", "s">>]

UrlA2 == [host |-> "h2", path |-> <<"/", "a", "/", "s">>]

UrlB == [host |-> "h1", path |-> <<"/", "b", "/", "s">>]

Urls == {UrlA1, UrlA2, UrlB}

\* the directories and the file prefixes the store is called with directly
StoreDirs == {<<cur_spec, <<"a">>>>}

StoreBases == {<<"a">>, <<"a", "_", "2">>}

Callers == 1..NumCallers

\* the strings over the alphabet of length at most n
RECURSIVE Strings(_, _)
Strings(alphabet, n) ==
    IF n = 0 THEN {<<>>}
    ELSE Strings(alphabet, n - 1)
         \cup {Append(s, c) : s \in Strings(alphabet, n - 1), c \in alphabet}

PathAlphabet == {"/", "a", "b"}

Scalars == {DInt(1), DFloat(1), DInt(2)}

\* the documents compare_specs is applied to: numbers, lists of them, and
\* objects holding one
DiffDocs ==
    LET lists == {DArr(s) : s \in Strings(Scalars, MaxArr)}
    IN  Scalars \cup lists \cup {DObj("x" :> d) : d \in Scalars \cup lists}

-----------------------------------------------------------------------------
(* The state *)

\* main(urls_file, work_dir) as the script calls it: no base_filename, no
\* time bounds; urls: the lines of urls_file
ArgsNone ==
    [urls |-> Urls, hasBase |-> FALSE, base |-> <<>>, start |-> NoTime, end |-> NoTime]

LastInit ==
    [op |-> "init", url |-> NoUrl, key |-> <<>>, directory |-> <<>>,
     base |-> <<>>, start |-> NoTime, end |-> NoTime,
     cur |-> NoDoc, latest |-> NoPath, prior |-> NoDoc, report |-> {},
     outcome |-> "", existed |-> FALSE, fsChanged |-> FALSE,
     wroteSpec |-> FALSE, wroteDiff |-> FALSE,
     latestOwner |-> NoUrl, expected |-> NoDoc, othersChanged |-> FALSE,
     skipped |-> {}]

\* n: the operations so far; created: the document each snapshot path was
\* first saved with; owner: the URL each snapshot path was last saved for;
\* snaps: the (directory, prefix, instant) of every save_spec; urls: the
\* URLs processed; lastSaved: the document the last successful run saved;
\* stamps: the instants of the successful runs' saves, in order
HistInit ==
    [n |-> 0, created |-> <<>>, owner |-> <<>>, snaps |-> {}, urls |-> {},
     lastSaved |-> NoDoc, stamps |-> <<>>]

PcIdle == [at |-> "idle", op |-> "", directory |-> <<>>, base |-> <<>>]

CmpInit == [old |-> NoDoc, new |-> NoDoc, report |-> {}, done |-> FALSE]

SysInit ==
    /\ dirs = {}
    /\ files = <<>>
    /\ now = StartInstant
    /\ last = LastInit
    /\ hist = HistInit
    /\ pc = [p \in Callers |-> PcIdle]
    /\ cmp = CmpInit

\* datetime.now() a second later
Tick ==
    /\ now[6] < StartInstant[6] + ClockSpan
    /\ now' = [now EXCEPT ![6] = @ + 1]
    /\ UNCHANGED <<dirs, files, args, last, hist, pc, cmp>>

\* datetime.now() is the naive local time of the wall clock: it is set back
\* at the end of daylight saving time and when the clock is adjusted
ClockBack ==
    /\ now[6] > StartInstant[6]
    /\ now' = [now EXCEPT ![6] = @ - 1]
    /\ UNCHANGED <<dirs, files, args, last, hist, pc, cmp>>

-----------------------------------------------------------------------------
(* process_url and main *)

\* base_filename of process_url: the argument, default_directory when None
BaseOf(url) ==
    IF args.hasBase THEN args.base ELSE extract_default_directory(url)

\* the snapshots a query for the URL can see: name -> content
Visible(fs, url) ==
    LET d == JoinDir(cur_spec, extract_default_directory(url))
    IN  [f \in Candidates(fs, d, BaseOf(url), NoTime, NoTime) |->
            fs[[dir |-> d, name |-> f]]]

\* process_url(url, base_filename, work_dir, start_time, end_time), called
\* by main for a line of urls.txt.  response: what the server answers.
\* complete: whether save_spec's json.dump completes.
process_url(url, response, complete) ==
    LET default_directory == extract_default_directory(url)
        current_spec_directory == JoinDir(cur_spec, default_directory)
        diff_directory == JoinDir(diff, default_directory)
        base_filename == BaseOf(url)
        current_spec == load_spec_url(response)
        run == [LastInit EXCEPT !.op = "process_url", !.url = url,
                   !.key = default_directory,
                   !.directory = current_spec_directory,
                   !.base = base_filename, !.start = args.start,
                   !.end = args.end, !.cur = current_spec,
                   !.expected = hist.lastSaved]
    IN  IF ~Truthy(current_spec)
        THEN /\ last' = [run EXCEPT !.outcome = "current_invalid"]
             /\ hist' = [hist EXCEPT !.n = @ + 1, !.urls = @ \cup {url}]
             /\ UNCHANGED <<dirs, files>>
        ELSE \E latest_spec_path \in
                    get_latest_spec_in_range(dirs, files, current_spec_directory,
                                             base_filename, args.start, args.end) :
             LET previous_spec ==
                     IF latest_spec_path # NoPath
                     THEN load_spec_file(files, latest_spec_path) ELSE NoDoc
                 changes ==
                     IF Truthy(previous_spec)
                     THEN compare_specs(current_spec, previous_spec) ELSE {}
                 saves_diff == Truthy(previous_spec) /\ changes # {}
                 dirs1 == IF saves_diff THEN EnsureDir(dirs, diff_directory) ELSE dirs
                 files1 == IF saves_diff
                           THEN save_diff(files, changes, diff_directory,
                                          base_filename, now)
                           ELSE files
                 path == SpecPath(current_spec_directory, base_filename, now)
                 files2 == IF complete
                           THEN save_spec(files1, current_spec,
                                          current_spec_directory, base_filename, now)
                           ELSE WriteFile(files1, path, Truncated)
             IN  /\ dirs' = EnsureDir(dirs1, current_spec_directory)
                 /\ files' = files2
                 /\ last' = [run EXCEPT
                        !.latest = latest_spec_path,
                        !.prior = previous_spec,
                        !.report = changes,
                        !.outcome = IF ~Truthy(previous_spec) THEN "no_previous"
                                    ELSE IF changes # {} THEN "changes"
                                    ELSE "no_changes",
                        !.existed = path \in DOMAIN files,
                        !.fsChanged = TRUE,
                        !.wroteSpec = complete,
                        !.wroteDiff = saves_diff,
                        !.latestOwner = IF latest_spec_path \in DOMAIN hist.owner
                                        THEN hist.owner[latest_spec_path] ELSE NoUrl,
                        !.othersChanged =
                            \E u \in args.urls \ {url} : Visible(files2, u) # Visible(files, u),
                        !.skipped = Skipped(files, current_spec_directory, base_filename)]
                 /\ hist' = [hist EXCEPT
                        !.n = @ + 1,
                        !.urls = @ \cup {url},
                        !.created = IF path \in DOMAIN @ THEN @
                                    ELSE (path :> current_spec) @@ @,
                        !.owner = (path :> url) @@ @,
                        !.snaps = @ \cup {[dir |-> current_spec_directory,
                                           base |-> base_filename, t |-> now]},
                        !.lastSaved = current_spec,
                        !.stamps = Append(@, now)]

\* main processing one line of urls.txt
ProcessUrl ==
    /\ hist.n < MaxRuns
    /\ \E url \in args.urls, response \in Responses : process_url(url, response, TRUE)
    /\ UNCHANGED <<now, args, pc, cmp>>

\* main is called for the lines of urls.txt, with a base_filename or None,
\* and with a start_time or None
Init ==
    /\ SysInit
    /\ args \in [urls : {Urls}, hasBase : BOOLEAN, base : {<<"x">>},
                 start : TimeArgs, end : {NoTime}]

Next == ProcessUrl \/ Tick \/ ClockBack

Spec == Init /\ [][Next]_vars

\* main is called for one URL, with time bounds or None
InitOne ==
    /\ SysInit
    /\ args \in [urls : {{UrlA1}}, hasBase : {FALSE}, base : {<<>>},
                 start : TimeArgs, end : TimeArgs]

SpecOne == InitOne /\ [][Next]_vars

-----------------------------------------------------------------------------
(* process_url when save_spec may fail between open() and the end of
   json.dump (the disk is full, the process is stopped): the exception
   leaves main, and the next run of the script finds the file *)

ProcessUrlFaulty ==
    /\ hist.n < MaxRuns
    /\ \E url \in args.urls, response \in Responses, complete \in BOOLEAN :
           process_url(url, response, complete)
    /\ UNCHANGED <<now, args, pc, cmp>>

InitFault ==
    /\ SysInit
    /\ args \in [urls : {{UrlA1}, {UrlB}}, hasBase : {FALSE}, base : {<<>>},
                 start : {NoTime}, end : {NoTime}]

NextFault == ProcessUrlFaulty \/ Tick

SpecFault == InitFault /\ [][NextFault]_vars

-----------------------------------------------------------------------------
(* The store called directly *)

SaveSpecOp ==
    /\ hist.n < MaxRuns
    /\ \E directory \in StoreDirs, base \in StoreBases, doc \in {DocA, DocB} :
         LET path == SpecPath(directory, base, now)
         IN  /\ dirs' = EnsureDir(dirs, directory)
             /\ files' = save_spec(files, doc, directory, base, now)
             /\ last' = [LastInit EXCEPT !.op = "save_spec",
                            !.directory = directory, !.base = base, !.cur = doc,
                            !.existed = path \in DOMAIN files,
                            !.outcome = "saved",
                            !.fsChanged = TRUE, !.wroteSpec = TRUE]
             /\ hist' = [hist EXCEPT
                            !.n = @ + 1,
                            !.created = IF path \in DOMAIN @ THEN @
                                        ELSE (path :> doc) @@ @,
                            !.snaps = @ \cup {[dir |-> directory, base |-> base,
                                               t |-> now]}]
    /\ UNCHANGED <<now, args, pc, cmp>>

SaveDiffOp ==
    /\ hist.n < MaxRuns
    /\ \E directory \in StoreDirs, base \in StoreBases :
         /\ dirs' = EnsureDir(dirs, directory)
         /\ files' = save_diff(files, compare_specs(DocB, DocA), directory, base, now)
         /\ last' = [LastInit EXCEPT !.op = "save_diff",
                        !.directory = directory, !.base = base,
                        !.existed = DiffPath(directory, base, now) \in DOMAIN files,
                        !.outcome = "saved",
                        !.fsChanged = TRUE, !.wroteDiff = TRUE]
         /\ hist' = [hist EXCEPT !.n = @ + 1]
    /\ UNCHANGED <<now, args, pc, cmp>>

QueryOp ==
    /\ hist.n < MaxRuns
    /\ \E directory \in StoreDirs, base \in StoreBases,
          start \in TimeArgs, end \in TimeArgs :
         \E latest \in get_latest_spec_in_range(dirs, files, directory, base,
                                                start, end) :
             /\ last' = [LastInit EXCEPT !.op = "get_latest_spec_in_range",
                            !.directory = directory, !.base = base,
                            !.start = start, !.end = end, !.latest = latest,
                            !.skipped = IF DirExists(dirs, directory)
                                        THEN Skipped(files, directory, base) ELSE {}]
             /\ hist' = [hist EXCEPT !.n = @ + 1]
    /\ UNCHANGED <<dirs, files, now, args, pc, cmp>>

InitStore == SysInit /\ args = ArgsNone

NextStore == SaveSpecOp \/ SaveDiffOp \/ QueryOp \/ Tick

SpecStore == InitStore /\ [][NextStore]_vars

-----------------------------------------------------------------------------
(* save_spec and save_diff called concurrently: each caller runs the
   statements of the function one at a time *)

ConcDirs == {<<cur_spec, <<"a">>>>, <<diff, <<"a">>>>}

\* the caller enters save_spec or save_diff and evaluates
\* os.path.exists(directory)
CallSave(p) ==
    /\ pc[p].at = "idle"
    /\ \E op \in {"save_spec", "save_diff"}, directory \in ConcDirs :
          pc' = [pc EXCEPT ![p] =
                    [at |-> IF DirExists(dirs, directory) THEN "write" ELSE "makedirs",
                     op |-> op, directory |-> directory, base |-> <<"a">>]]
    /\ UNCHANGED <<dirs, files, now, args, last, hist, cmp>>

\* os.makedirs(directory): FileExistsError when the directory exists by now
MakedirsStep(p) ==
    /\ pc[p].at = "makedirs"
    /\ IF DirExists(dirs, pc[p].directory)
       THEN /\ pc' = [pc EXCEPT ![p].at = "FileExistsError"]
            /\ UNCHANGED dirs
       ELSE /\ dirs' = Makedirs(dirs, pc[p].directory)
            /\ pc' = [pc EXCEPT ![p].at = "write"]
    /\ UNCHANGED <<files, now, args, last, hist, cmp>>

\* the timestamp is taken and the file written
WriteStep(p) ==
    /\ pc[p].at = "write"
    /\ files' = IF pc[p].op = "save_spec"
                THEN save_spec(files, DocA, pc[p].directory, pc[p].base, now)
                ELSE save_diff(files, compare_specs(DocB, DocA), pc[p].directory,
                               pc[p].base, now)
    /\ pc' = [pc EXCEPT ![p].at = "done"]
    /\ UNCHANGED <<dirs, now, args, last, hist, cmp>>

InitConc == SysInit /\ args = ArgsNone

NextConc ==
    \/ \E p \in Callers : CallSave(p)
    \/ \E p \in Callers : MakedirsStep(p)
    \/ \E p \in Callers : WriteStep(p)
    \/ Tick

SpecConc == InitConc /\ [][NextConc]_vars

-----------------------------------------------------------------------------
(* extract_default_directory applied to a URL *)

ExtractKey ==
    /\ last.op = "init"
    /\ last' = [last EXCEPT !.op = "extract_default_directory",
                            !.key = extract_default_directory(last.url)]
    /\ UNCHANGED <<dirs, files, now, args, hist, pc, cmp>>

InitKey ==
    /\ dirs = {}
    /\ files = <<>>
    /\ now = StartInstant
    /\ args = ArgsNone
    /\ hist = HistInit
    /\ pc = [p \in Callers |-> PcIdle]
    /\ cmp = CmpInit
    /\ \E path \in Strings(PathAlphabet, MaxPathLen) :
           last = [LastInit EXCEPT !.url = [host |-> "h1", path |-> path]]

SpecKey == InitKey /\ [][ExtractKey]_vars

-----------------------------------------------------------------------------
(* compare_specs applied to two documents *)

CompareSpecs ==
    /\ ~cmp.done
    /\ cmp' = [cmp EXCEPT !.report = compare_specs(cmp.new, cmp.old),
                          !.done = TRUE]
    /\ UNCHANGED <<dirs, files, now, args, last, hist, pc>>

InitDiff ==
    /\ dirs = {}
    /\ files = <<>>
    /\ now = StartInstant
    /\ args = ArgsNone
    /\ last = LastInit
    /\ hist = HistInit
    /\ pc = [p \in Callers |-> PcIdle]
    /\ cmp \in [old : DiffDocs, new : DiffDocs, report : {{}}, done : {FALSE}]

SpecDiff == InitDiff /\ [][CompareSpecs]_vars

-----------------------------------------------------------------------------
(* The claims *)

\* the snapshots saved for the key of the last query that lie in its bounds
SnapsInRange ==
    {sn \in hist.snaps :
        /\ sn.dir = last.directory
        /\ sn.base = last.base
        /\ InRange(sn.t, last.start, last.end)}

\* C1: a query returns the snapshot of its key with the greatest timestamp
\* within the bounds (a missing bound is open), and returns none exactly
\* when no snapshot of the key lies within them, the key never saved
\* included.
C1_LatestInRange ==
    last.op = "get_latest_spec_in_range" =>
        IF SnapsInRange = {} THEN last.latest = NoPath
        ELSE \E sn \in SnapsInRange :
                /\ \A o \in SnapsInRange : TimeLE(o.t, sn.t)
                /\ last.latest = SpecPath(sn.dir, sn.base, sn.t)

\* C2: a save for a (resource key, timestamp) that is already stored fails
\* with DuplicateTimestamp and writes nothing.
C2_DuplicateTimestamp ==
    (last.op = "save_spec" /\ last.existed) =>
        (last.outcome = "DuplicateTimestamp" /\ ~last.wroteSpec)

\* C3: every snapshot once saved under (resource key, timestamp) is still
\* stored, and holds the document of the save that created it.
C3_AppendOnly ==
    \A path \in DOMAIN hist.created :
        path \in DOMAIN files /\ files[path] = JsonDump(hist.created[path])

\* the '/'-delimited segments of a path; the empty piece before a leading
\* '/' is no segment
Segments(path) ==
    IF path # <<>> /\ path[1] = "/" THEN Tail(Split(path, "/"))
    ELSE Split(path, "/")

\* C4: the key derived from a URL is the second-to-last segment of its
\* path, and "." when the path has fewer than two segments.
C4_DeriveKey ==
    last.op = "extract_default_directory" =>
        last.key = IF Len(Segments(last.url.path)) >= 2
                   THEN Segments(last.url.path)[Len(Segments(last.url.path)) - 1]
                   ELSE <<".">>

\* C5: a run for one URL never gets as its prior snapshot one saved for
\* another URL, and its save never changes the snapshots another URL sees.
C5_NoCollision ==
    last.op = "process_url" =>
        /\ last.latestOwner \in {NoUrl, last.url}
        /\ ~last.othersChanged

\* C6: no concurrent save_spec / save_diff fails because of the creation
\* of the storage location.
C6_ConcurrentCreate ==
    \A p \in Callers : pc[p].at # "FileExistsError"

\* Equality of documents when lists are multisets: lists of one length
\* whose items pair off one to one; scalars equal as compare_specs takes
\* them, of one type and one value
RECURSIVE MultisetEqual(_, _)
MultisetEqual(a, b) ==
    IF a.k # b.k THEN FALSE
    ELSE CASE a.k = "arr" ->
                 /\ Len(a.v) = Len(b.v)
                 /\ \E f \in Permutations(DOMAIN a.v) :
                        \A i \in DOMAIN a.v : MultisetEqual(a.v[i], b.v[f[i]])
           [] a.k = "obj" ->
                 /\ DOMAIN a.v = DOMAIN b.v
                 /\ \A key \in DOMAIN a.v : MultisetEqual(a.v[key], b.v[key])
           [] OTHER -> a.v = b.v

\* C7: the report of a comparison is empty if and only if the documents
\* are equal with their lists taken as multisets: a permuted list gives an
\* empty report, a list with one more occurrence of an item does not.
C7_ArraysAsMultisets ==
    cmp.done => (cmp.report = {} <=> MultisetEqual(cmp.old, cmp.new))

\* Equality of documents when a number is its value, int or float
RECURSIVE NumericEqual(_, _)
NumericEqual(a, b) ==
    IF a.k \in {"int", "float"} /\ b.k \in {"int", "float"} THEN a.v = b.v
    ELSE IF a.k # b.k THEN FALSE
    ELSE CASE a.k = "arr" ->
                 /\ Len(a.v) = Len(b.v)
                 /\ \A i \in DOMAIN a.v : NumericEqual(a.v[i], b.v[i])
           [] a.k = "obj" ->
                 /\ DOMAIN a.v = DOMAIN b.v
                 /\ \A key \in DOMAIN a.v : NumericEqual(a.v[key], b.v[key])
           [] OTHER -> a.v = b.v

\* C8: documents that differ only in the representation of a number, 1 and
\* 1.0, give an empty report.
C8_NumericEquality ==
    (cmp.done /\ NumericEqual(cmp.old, cmp.new)) => cmp.report = {}

\* C9: when a run reports what a run with no prior snapshot reports, no
\* snapshot of the resource lies within the bounds: none was found and
\* then failed to load, and no stored entry was skipped.
C9_NoneIsNotFailure ==
    (last.op = "process_url" /\ last.outcome = "no_previous") =>
        (last.latest = NoPath /\ last.skipped = {})

SingleResource == Cardinality(hist.urls) <= 1

NoBounds == args.start = NoTime /\ args.end = NoTime

DistinctStamps ==
    \A i, j \in DOMAIN hist.stamps : i # j => hist.stamps[i] # hist.stamps[j]

IncreasingStamps ==
    \A i, j \in DOMAIN hist.stamps : i < j => TimeLT(hist.stamps[i], hist.stamps[j])

\* what the last run did, when it did what C10 says: a run whose document
\* loaded compared it with the document the most recent earlier successful
\* run saved (with nothing, when there is none) and saved it; a run whose
\* document did not load wrote nothing
RunAsClaimed ==
    IF last.cur = NoDoc THEN ~last.fsChanged
    ELSE /\ last.wroteSpec
         /\ files[SpecPath(last.directory, last.base, hist.stamps[Len(hist.stamps)])]
               = JsonDump(last.cur)
         /\ last.prior = last.expected
         /\ last.report = IF last.expected = NoDoc THEN {}
                          ELSE compare_specs(last.cur, last.expected)
         /\ last.wroteDiff = (last.report # {})

\* C10 as stated: over runs for one resource with no time bounds and
\* pairwise distinct save seconds, every run does as RunAsClaimed says.
C10_PriorIsLastRun_Distinct ==
    (last.op = "process_url" /\ SingleResource /\ NoBounds /\ DistinctStamps)
        => RunAsClaimed

\* C10 amended: over runs for one resource with no time bounds and strictly
\* increasing save seconds, every run does as RunAsClaimed says.
C10_PriorIsLastRun_Increasing ==
    (last.op = "process_url" /\ SingleResource /\ NoBounds /\ IncreasingStamps)
        => RunAsClaimed

\* C10's case: a third successful run in a row, later than the two before
\* it, that found the second run's document and a difference to it
C10_Witness ==
    /\ last.op = "process_url"
    /\ SingleResource /\ NoBounds /\ IncreasingStamps
    /\ Len(hist.stamps) >= 3
    /\ last.prior # NoDoc
    /\ last.prior = last.expected
    /\ last.wroteDiff

====
